---- MODULE Spec2Model ----
(***************************************************************************)
(* Shunting-yard calculator (src/src/calc.py): tokenize, to_rpn,           *)
(* evaluate_rpn and calculate.                                             *)
(*                                                                         *)
(* A character is a one-character string, a text is a sequence of          *)
(* characters, and a token is a text: "**" is <<"*","*">>, "u-" is         *)
(* <<"u","-">>, "10.5" is <<"1","0",".","5">>.                             *)
(*                                                                         *)
(* A Python number is [tag, n, d]: tag "int" (d = 1) or "float", value     *)
(* n/d in lowest terms.  A float is modelled only where binary floating    *)
(* point is exact: d a power of two, |n| and d within MaxMagnitude.  An    *)
(* operation whose result leaves that domain (1/3, 2 ** 0.5, 9 ** 9 ** 9)  *)
(* is "outside": the step that would perform it is not taken.  A float     *)
(* power too large for a float raises OverflowError, one too small is 0.0. *)
(* The sign of a float zero is not modelled (-0.0 == 0.0 == 0 in Python).  *)
(***************************************************************************)
EXTENDS Integers, Sequences, FiniteSets, TLC

\* ---------------------------------------------------------------------
\* Bounds of the model
\* ---------------------------------------------------------------------
MaxMagnitude == 600

MaxChars == 5

MaxTokChars == 4

MaxInfixTokens == 7

MaxRpnTokens == 5

MaxEvalTokens == 5

\* ---------------------------------------------------------------------
\* Characters and tokens
\* ---------------------------------------------------------------------
Digits == {"0", "1", "2", "3", "4", "5", "6", "7", "8", "9"}

DigitVal(c) ==
    CASE c = "0" -> 0 [] c = "1" -> 1 [] c = "2" -> 2 [] c = "3" -> 3
      [] c = "4" -> 4 [] c = "5" -> 5 [] c = "6" -> 6 [] c = "7" -> 7
      [] c = "8" -> 8 [] c = "9" -> 9

PLUS == <<"+">>

MINUS == <<"-">>

MUL == <<"*">>

DIV == <<"/">>

FLOORDIV == <<"/", "/">>

MOD == <<"%">>

POW == <<"*", "*">>

UPLUS == <<"u", "+">>

UMINUS == <<"u", "-">>

LPAREN == <<"(">>

RPAREN == <<")">>

\* OPERATORS: the operator table.
OPERATORS ==
    (POW :> [precedence |-> 4, associativity |-> "right", function |-> "pow"])
 @@ (MUL :> [precedence |-> 3, associativity |-> "left", function |-> "mul"])
 @@ (DIV :> [precedence |-> 3, associativity |-> "left", function |-> "truediv"])
 @@ (FLOORDIV :> [precedence |-> 3, associativity |-> "left", function |-> "floordiv"])
 @@ (MOD :> [precedence |-> 3, associativity |-> "left", function |-> "mod"])
 @@ (PLUS :> [precedence |-> 2, associativity |-> "left", function |-> "add"])
 @@ (MINUS :> [precedence |-> 2, associativity |-> "left", function |-> "sub"])
 @@ (UPLUS :> [precedence |-> 5, associativity |-> "right", function |-> "pos"])
 @@ (UMINUS :> [precedence |-> 5, associativity |-> "right", function |-> "neg"])

\* token in OPERATORS
InOperators(token) == token \in DOMAIN OPERATORS

\* token.startswith("u")
StartsWithU(token) == Len(token) >= 1 /\ token[1] = "u"

\* "." in token
HasDot(token) == \E k \in 1..Len(token) : token[k] = "."

\* token in "()": Python's substring test on the two-character string.
InParenString(token) == token \in {<< >>, LPAREN, RPAREN, <<"(", ")">>}

\* ---------------------------------------------------------------------
\* Number literals: float(token) and int(token)
\* ---------------------------------------------------------------------
Unsigned(token) ==
    IF Len(token) >= 1 /\ token[1] \in {"+", "-"} THEN Tail(token) ELSE token

IsNegative(token) == Len(token) >= 1 /\ token[1] = "-"

AllDigits(text) == \A k \in 1..Len(text) : text[k] \in Digits

\* The words float() accepts besides decimal literals (lower case).
FloatWords ==
    {<<"i", "n", "f">>, <<"n", "a", "n">>,
     <<"i", "n", "f", "i", "n", "i", "t", "y">>}

\* int(token) succeeds: an optional sign and one or more digits.
IsIntLiteral(token) ==
    LET body == Unsigned(token) IN Len(body) >= 1 /\ AllDigits(body)

\* float(token) succeeds on a decimal literal: optional sign, digits with at
\* most one ".", at least one digit ("5.", ".5" and "-2" are accepted).
\* Exponents, underscores, surrounding blanks and upper case are forms of
\* float() that no alphabet of this model can spell.
IsDecimalLiteral(token) ==
    LET body == Unsigned(token) IN
    /\ \A k \in 1..Len(body) : body[k] \in Digits \cup {"."}
    /\ Cardinality({k \in 1..Len(body) : body[k] = "."}) <= 1
    /\ \E k \in 1..Len(body) : body[k] \in Digits

\* _is_number(token): float(token) does not raise ValueError.
IsNumber(token) == IsDecimalLiteral(token) \/ Unsigned(token) \in FloatWords

RECURSIVE DigitsValue(_)
DigitsValue(text) ==
    IF text = << >> THEN 0
    ELSE 10 * DigitsValue(SubSeq(text, 1, Len(text) - 1)) + DigitVal(text[Len(text)])

RECURSIVE Gcd(_, _)
Gcd(a, b) == IF b = 0 THEN a ELSE Gcd(b, a % b)

Abs(x) == IF x < 0 THEN -x ELSE x

RECURSIVE TenTo(_)
TenTo(k) == IF k = 0 THEN 1 ELSE 10 * TenTo(k - 1)

RECURSIVE IsPowerOfTwo(_)
IsPowerOfTwo(d) == d = 1 \/ (d > 1 /\ d % 2 = 0 /\ IsPowerOfTwo(d \div 2))

\* ---------------------------------------------------------------------
\* Python numbers and results of Python expressions
\* ---------------------------------------------------------------------
Num(tag, n, d) == [tag |-> tag, n |-> n, d |-> d]

NoNumber == Num("none", 0, 1)

\* n/d in lowest terms with a positive denominator.
Reduced(tag, n, d) ==
    LET g == Gcd(Abs(n), Abs(d))
        s == IF d < 0 THEN -1 ELSE 1
    IN Num(tag, s * (n \div g), s * (d \div g))

\* The number is one the model represents exactly.
Representable(v) ==
    /\ Abs(v.n) <= MaxMagnitude
    /\ v.d <= MaxMagnitude
    /\ IF v.tag = "int" THEN v.d = 1 ELSE IsPowerOfTwo(v.d)

Value(v) == [kind |-> "value", val |-> v, exc |-> "", msg |-> ""]

Raise(exc, msg) == [kind |-> "raise", val |-> NoNumber, exc |-> exc, msg |-> msg]

Outside == [kind |-> "outside", val |-> NoNumber, exc |-> "", msg |-> ""]

Pending == [kind |-> "none", val |-> NoNumber, exc |-> "", msg |-> ""]

Checked(v) == IF Representable(v) THEN Value(v) ELSE Outside

\* ---------------------------------------------------------------------
\* Evaluation of number tokens: float(token) / int(token)
\* ---------------------------------------------------------------------
IsDigit(c) == c \in Digits

\* float(token) for a decimal literal with a ".".
FloatOf(token) ==
    LET body == Unsigned(token)
        dot == CHOOSE k \in 1..Len(body) : body[k] = "."
        n == DigitsValue(SelectSeq(body, IsDigit))
        sign == IF IsNegative(token) THEN -1 ELSE 1
    IN Checked(Reduced("float", sign * n, TenTo(Len(body) - dot)))

\* int(token): ValueError unless the token is an optional sign and digits.
IntOf(token) ==
    IF IsIntLiteral(token)
    THEN Checked(Num("int",
                     (IF IsNegative(token) THEN -1 ELSE 1) * DigitsValue(Unsigned(token)),
                     1))
    ELSE Raise("ValueError", "")

\* evaluate_rpn's conversion of a number token.
ParseNumber(token) == IF HasDot(token) THEN FloatOf(token) ELSE IntOf(token)

\* ---------------------------------------------------------------------
\* The operator functions (operator.add, ..., lambda x: -x)
\* ---------------------------------------------------------------------
ResultTag(l, r) == IF l.tag = "int" /\ r.tag = "int" THEN "int" ELSE "float"

\* floor(a / b) for integers, b # 0.
FloorQuot(a, b) == IF b > 0 THEN a \div b ELSE (-a) \div (-b)

PyAdd(l, r) == Checked(Reduced(ResultTag(l, r), l.n * r.d + r.n * l.d, l.d * r.d))

PySub(l, r) == Checked(Reduced(ResultTag(l, r), l.n * r.d - r.n * l.d, l.d * r.d))

PyMul(l, r) == Checked(Reduced(ResultTag(l, r), l.n * r.n, l.d * r.d))

PyTrueDiv(l, r) ==
    IF r.n = 0 THEN Raise("ZeroDivisionError", "")
    ELSE Checked(Reduced("float", l.n * r.d, l.d * r.n))

PyFloorDiv(l, r) ==
    IF r.n = 0 THEN Raise("ZeroDivisionError", "")
    ELSE Checked(Num(ResultTag(l, r), FloorQuot(l.n * r.d, l.d * r.n), 1))

PyMod(l, r) ==
    IF r.n = 0 THEN Raise("ZeroDivisionError", "")
    ELSE LET q == FloorQuot(l.n * r.d, l.d * r.n)
         IN Checked(Reduced(ResultTag(l, r),
                            l.n * r.d - q * r.n * l.d, l.d * r.d))

\* b ** e for an integer b with |b| >= 2 and e >= 0, cut off once the
\* magnitude passes MaxMagnitude (the result is then outside the model).
RECURSIVE PowAcc(_, _, _)
PowAcc(b, e, acc) ==
    IF e = 0 \/ Abs(acc) > MaxMagnitude THEN acc ELSE PowAcc(b, e - 1, acc * b)

IntPow(b, e) ==
    IF e = 0 THEN 1
    ELSE IF b = 0 THEN 0
    ELSE IF b = 1 THEN 1
    ELSE IF b = -1 THEN (IF e % 2 = 0 THEN 1 ELSE -1)
    ELSE PowAcc(b, e, 1)

\* The number of binary digits of the natural number n (0 for 0).
RECURSIVE BitLen(_)
BitLen(n) == IF n = 0 THEN 0 ELSE 1 + BitLen(n \div 2)

\* Unbounded naturals, for the size of n ** p: a sequence of limbs below
\* LimbBase, least significant first.
LimbBits == 15

LimbBase == 32768

ChunkLen == 24

\* The limbs of chunk from index k on times the small factor n, plus
\* carry, appended to acc; the carry out of the chunk comes last.
RECURSIVE TimesChunk(_, _, _, _, _)
TimesChunk(chunk, n, k, carry, acc) ==
    IF k > Len(chunk) THEN Append(acc, carry)
    ELSE TimesChunk(chunk, n, k + 1, (chunk[k] * n + carry) \div LimbBase,
                    Append(acc, (chunk[k] * n + carry) % LimbBase))

RECURSIVE TimesFrom(_, _, _, _, _)

\* The rest of the product, r being the product of the chunk that ends at
\* index last.
TimesNext(limbs, n, last, r, acc) ==
    TimesFrom(limbs, n, last + 1, r[Len(r)], acc \o SubSeq(r, 1, Len(r) - 1))

\* The limbs from index k on times n, plus carry, appended to acc: one
\* chunk of at most ChunkLen limbs after the other, which keeps the
\* recursion shallow.
TimesFrom(limbs, n, k, carry, acc) ==
    IF k > Len(limbs) THEN (IF carry = 0 THEN acc ELSE Append(acc, carry))
    ELSE IF k + ChunkLen > Len(limbs)
    THEN TimesNext(limbs, n, Len(limbs),
                   TimesChunk(SubSeq(limbs, k, Len(limbs)), n, 1, carry, << >>), acc)
    ELSE TimesNext(limbs, n, k + ChunkLen - 1,
                   TimesChunk(SubSeq(limbs, k, k + ChunkLen - 1), n, 1, carry, << >>), acc)

RECURSIVE PowLimbs(_, _, _)

\* half times n ** p (the test on half has it computed before the
\* multiplications start).
PowRest(half, n, p) == IF half = << >> THEN half ELSE PowLimbs(half, n, p)

\* limbs times n ** p, the exponent halved to keep the recursion shallow.
PowLimbs(limbs, n, p) ==
    IF p = 0 THEN limbs
    ELSE IF p = 1 THEN TimesFrom(limbs, n, 1, 0, << >>)
    ELSE PowRest(PowLimbs(limbs, n, p \div 2), n, p - p \div 2)

\* The number of binary digits of the number of the limbs.
LimbsBitLen(limbs) == LimbBits * (Len(limbs) - 1) + BitLen(limbs[Len(limbs)])

\* n ** p against 2 ** t, given the number of binary digits of n ** p:
\* 1 when greater, 0 when equal, -1 when less.
SizeCompare(size, t, n) ==
    IF size > t + 1 THEN 1
    ELSE IF size <= t THEN -1
    ELSE IF IsPowerOfTwo(n) THEN 0
    ELSE 1

\* n ** p against 2 ** t, for n >= 1 and p >= 1: decided by the size of n
\* where that is enough, by the size of n ** p otherwise.
PowCompare(n, p, t) ==
    IF t < (BitLen(n) - 1) * p THEN 1
    ELSE IF t >= BitLen(n) * p THEN -1
    ELSE SizeCompare(LimbsBitLen(PowLimbs(<<1>>, n, p)), t, n)

\* The natural number whose q-th power is n (0 when there is none), for
\* n >= 1.
IntRoot(n, q) ==
    IF \E a \in 1..n : IntPow(a, q) = n
    THEN CHOOSE a \in 1..n : IntPow(a, q) = n
    ELSE 0

\* (a/b) ** p for p > 0, (b/a) ** -p for p < 0.
RootPow(a, b, p) ==
    IF p > 0 THEN Checked(Num("float", IntPow(a, p), IntPow(b, p)))
    ELSE Checked(Num("float", IntPow(b, -p), IntPow(a, -p)))

\* The exact value of (n / 2 ** k) ** (p/q) when it is a modelled number:
\* n and 2 ** k must have rational q-th roots.
ExactPow(n, k, p, q, a) ==
    IF k % q # 0 \/ a = 0 THEN Outside ELSE RootPow(a, IntPow(2, k \div q), p)

\* pow(x, y) of the C library for x = n / 2 ** k > 0 and y = p/q # 0, as
\* float.__pow__ hands it on: OverflowError when the result is 2 ** 1024
\* or more, 0.0 when it is 2 ** -1075 or less; otherwise the exact power
\* when it is a modelled number, and outside the model when it is not.
PosPowOf(n, k, p, q) ==
    IF (IF p > 0 THEN PowCompare(n, p, 1024 * q + k * p) >= 0
        ELSE PowCompare(n, -p, k * (-p) - 1024 * q) <= 0)
    THEN Raise("OverflowError", "")
    ELSE IF (IF p > 0 THEN PowCompare(n, p, k * p - 1075 * q) <= 0
             ELSE PowCompare(n, -p, k * (-p) + 1075 * q) >= 0)
    THEN Value(Num("float", 0, 1))
    ELSE ExactPow(n, k, p, q, IntRoot(n, q))

\* The power of a nonzero x, r being that of its absolute value: a negative
\* base with a fractional exponent gives a complex number (outside the
\* model) unless its size overflows; with an odd integer exponent it gives
\* the negated power.
SignedPow(x, y, r) ==
    IF x.n < 0 /\ y.d # 1 THEN (IF r.kind = "raise" THEN r ELSE Outside)
    ELSE IF r.kind = "value" /\ x.n < 0 /\ y.n % 2 = 1
    THEN Value(Num("float", -r.val.n, r.val.d))
    ELSE r

\* float.__pow__: anything to the power zero is 1.0; zero to a negative
\* power raises ZeroDivisionError and to a positive power is 0.0.
FloatPow(x, y) ==
    IF y.n = 0 THEN Value(Num("float", 1, 1))
    ELSE IF x.n = 0
    THEN (IF y.n < 0 THEN Raise("ZeroDivisionError", "") ELSE Value(Num("float", 0, 1)))
    ELSE SignedPow(x, y, PosPowOf(Abs(x.n), BitLen(x.d) - 1, y.n, y.d))

\* operator.pow: int ** non-negative int is an int of any size; a float
\* operand or a negative exponent makes it the float power of the two
\* values.
PyPow(l, r) ==
    IF l.tag = "int" /\ r.tag = "int" /\ r.n >= 0
    THEN Checked(Num("int", IntPow(l.n, r.n), 1))
    ELSE FloatPow(l, r)

PyPos(x) == Value(x)

PyNeg(x) == Value(Num(x.tag, -x.n, x.d))

\* OPERATORS[token]["function"](left, right)
ApplyBinary(token, left, right) ==
    LET f == OPERATORS[token].function IN
    CASE f = "add" -> PyAdd(left, right)
      [] f = "sub" -> PySub(left, right)
      [] f = "mul" -> PyMul(left, right)
      [] f = "truediv" -> PyTrueDiv(left, right)
      [] f = "floordiv" -> PyFloorDiv(left, right)
      [] f = "mod" -> PyMod(left, right)
      [] f = "pow" -> PyPow(left, right)

\* OPERATORS[token]["function"](operand)
ApplyUnary(token, operand) ==
    IF OPERATORS[token].function = "neg" THEN PyNeg(operand) ELSE PyPos(operand)

\* ---------------------------------------------------------------------
\* Tokenizer
\* ---------------------------------------------------------------------
Blank == " "

OperatorChars == {"+", "-", "*", "/", "%"}

ParenChars == {"(", ")"}

\* Index of the first position >= k of text that does not satisfy "digit"
\* (Len(text) + 1 when there is none).
RECURSIVE EndOfDigits(_, _)
EndOfDigits(text, k) ==
    IF k <= Len(text) /\ text[k] \in Digits THEN EndOfDigits(text, k + 1) ELSE k

\* Index after the run of non-blank characters that starts at k.
RECURSIVE EndOfNonBlank(_, _)
EndOfNonBlank(text, k) ==
    IF k <= Len(text) /\ text[k] # Blank THEN EndOfNonBlank(text, k + 1) ELSE k

\* Index after the segment the lexical pattern matches at position k of
\* text (text[k] is not blank): a decimal number with an optional
\* fractional part, "**" or "//", a one-character operator or parenthesis,
\* and otherwise the whole run of non-blank characters.
SegmentEnd(text, k) ==
    LET c == text[k] IN
    IF c \in Digits
    THEN LET e == EndOfDigits(text, k) IN
         IF e + 1 <= Len(text) /\ text[e] = "." /\ text[e + 1] \in Digits
         THEN EndOfDigits(text, e + 1)
         ELSE e
    ELSE IF k + 1 <= Len(text) /\ c \in {"*", "/"} /\ text[k + 1] = c
    THEN k + 2
    ELSE IF c \in OperatorChars \cup ParenChars
    THEN k + 1
    ELSE EndOfNonBlank(text, k)

\* re.findall(TOKEN_PATTERN, expression, re.VERBOSE): the segments of the
\* text, left to right, blanks between them skipped.
RECURSIVE FindAll(_, _)
FindAll(text, k) ==
    IF k > Len(text) THEN << >>
    ELSE IF text[k] = Blank THEN FindAll(text, k + 1)
    ELSE LET e == SegmentEnd(text, k) IN
         <<SubSeq(text, k, e - 1)>> \o FindAll(text, e)

\* token.strip()
RECURSIVE Strip(_)
Strip(token) ==
    IF token = << >> THEN token
    ELSE IF token[1] = Blank THEN Strip(Tail(token))
    ELSE IF token[Len(token)] = Blank THEN Strip(SubSeq(token, 1, Len(token) - 1))
    ELSE token

NonEmpty(token) == token # << >>

\* [token.strip() for token in tokens if token.strip()]
StripAll(segments) ==
    SelectSeq([k \in 1..Len(segments) |-> Strip(segments[k])], NonEmpty)

\* The test tokenize applies to each token before accepting it.
TokenAccepted(token) ==
    \/ IsNumber(token)
    \/ InOperators(token)
    \/ InParenString(token)
    \/ token \in {POW, FLOORDIV}
    \/ StartsWithU(token)

\* Mutant of IsUnaryAt: a sign after an operator is not seen as unary.
IsUnaryAtFirstOrParen(tokens, i) ==
    \/ i = 1
    \/ tokens[i - 1] = LPAREN

\* The test of _process_unary_operators on the token at index i (1-based).
IsUnaryAt(tokens, i) ==
    \/ i = 1
    \/ tokens[i - 1] = LPAREN
    \/ (InOperators(tokens[i - 1]) /\ ~StartsWithU(tokens[i - 1]))

\* _process_unary_operators(tokens)
ProcessUnaryOperators(tokens) ==
    [i \in 1..Len(tokens) |->
        IF tokens[i] \in {PLUS, MINUS} /\ IsUnaryAt(tokens, i)
        THEN <<"u">> \o tokens[i]
        ELSE tokens[i]]

\* ---------------------------------------------------------------------
\* Infix to postfix
\* ---------------------------------------------------------------------
\* Mutant of ShouldPopOperator: equal precedence pops whatever the
\* associativity of the incoming operator.
ShouldPopOperatorAnyAssoc(stack_top, current_token) ==
    /\ InOperators(stack_top)
    /\ OPERATORS[stack_top].precedence >= OPERATORS[current_token].precedence

\* _should_pop_operator(stack_top, current_token)
ShouldPopOperator(stack_top, current_token) ==
    IF ~InOperators(stack_top) THEN FALSE
    ELSE LET stack_op == OPERATORS[stack_top]
             current_op == OPERATORS[current_token]
         IN IF stack_op.precedence > current_op.precedence THEN TRUE
            ELSE IF /\ stack_op.precedence = current_op.precedence
                    /\ current_op.associativity = "left"
                 THEN TRUE
                 ELSE FALSE

Top(s) == s[Len(s)]

Pop(s) == SubSeq(s, 1, Len(s) - 1)

Conv(out, stk, err) == [output |-> out, operator_stack |-> stk, err |-> err]

\* The while loop of to_rpn for an operator token.
RECURSIVE PopForOperator(_, _, _)
PopForOperator(out, stk, token) ==
    IF stk # << >> /\ Top(stk) # LPAREN /\ ShouldPopOperator(Top(stk), token)
    THEN PopForOperator(Append(out, Top(stk)), Pop(stk), token)
    ELSE Conv(out, stk, FALSE)

\* Mutant of PopToParen: the operators popped for ")" are not appended to
\* the output.
RECURSIVE PopToParenDiscarding(_, _)
PopToParenDiscarding(out, stk) ==
    IF stk # << >> /\ stk[Len(stk)] # LPAREN
    THEN PopToParenDiscarding(out, SubSeq(stk, 1, Len(stk) - 1))
    ELSE [output |-> out, operator_stack |-> stk, err |-> FALSE]

\* The while loop of to_rpn for ")".
RECURSIVE PopToParen(_, _)
PopToParen(out, stk) ==
    IF stk # << >> /\ Top(stk) # LPAREN
    THEN PopToParen(Append(out, Top(stk)), Pop(stk))
    ELSE Conv(out, stk, FALSE)

\* One iteration of the for loop of to_rpn.
RpnToken(out, stk, token) ==
    IF IsNumber(token) THEN Conv(Append(out, token), stk, FALSE)
    ELSE IF InOperators(token)
    THEN LET r == PopForOperator(out, stk, token)
         IN Conv(r.output, Append(r.operator_stack, token), FALSE)
    ELSE IF token = LPAREN THEN Conv(out, Append(stk, token), FALSE)
    ELSE IF token = RPAREN
    THEN LET r == PopToParen(out, stk)
         IN IF r.operator_stack = << >>
            THEN Conv(r.output, r.operator_stack, TRUE)
            ELSE Conv(r.output, Pop(r.operator_stack), FALSE)
    ELSE Conv(out, stk, FALSE)

\* Mutant of RpnDrainStack: a "(" left on the stack is dropped silently.
RECURSIVE RpnDrainStackLenient(_, _)
RpnDrainStackLenient(out, stk) ==
    IF stk = << >> THEN [output |-> out, operator_stack |-> stk, err |-> FALSE]
    ELSE IF stk[Len(stk)] = LPAREN
    THEN RpnDrainStackLenient(out, SubSeq(stk, 1, Len(stk) - 1))
    ELSE RpnDrainStackLenient(Append(out, stk[Len(stk)]), SubSeq(stk, 1, Len(stk) - 1))

\* The final while loop of to_rpn.
RECURSIVE RpnDrainStack(_, _)
RpnDrainStack(out, stk) ==
    IF stk = << >> THEN Conv(out, stk, FALSE)
    ELSE IF Top(stk) = LPAREN THEN Conv(out, stk, TRUE)
    ELSE RpnDrainStack(Append(out, Top(stk)), Pop(stk))

\* ---------------------------------------------------------------------
\* Postfix evaluation
\* ---------------------------------------------------------------------
InvalidExpression(msg) == Raise("InvalidExpressionError", msg)

DivisionByZero == Raise("DivisionByZeroError", "ERROR_DIVISION_BY_ZERO")

\* Mutant of ValidateOperation: the integer-only test comes first.
ValidateOperationTypeFirst(operator, left, right) ==
    IF operator \in {FLOORDIV, MOD} /\ (left.tag # "int" \/ right.tag # "int")
    THEN InvalidExpression("ERROR_INTEGER_OPERATION")
    ELSE IF operator \in {DIV, FLOORDIV, MOD} /\ right.n = 0
    THEN DivisionByZero
    ELSE Pending

\* Mutant of ValidateOperation: an integer-valued float passes for an int.
ValidateOperationByValue(operator, left, right) ==
    IF operator \in {DIV, FLOORDIV, MOD} /\ right.n = 0
    THEN DivisionByZero
    ELSE IF operator \in {FLOORDIV, MOD} /\ (left.d # 1 \/ right.d # 1)
    THEN InvalidExpression("ERROR_INTEGER_OPERATION")
    ELSE Pending

\* _validate_operation(operator, left, right): Pending when it returns.
ValidateOperation(operator, left, right) ==
    IF operator \in {DIV, FLOORDIV, MOD} /\ right.n = 0
    THEN DivisionByZero
    ELSE IF operator \in {FLOORDIV, MOD} /\ (left.tag # "int" \/ right.tag # "int")
    THEN InvalidExpression("ERROR_INTEGER_OPERATION")
    ELSE Pending

\* The validation and the application of a binary operator.
EvalBinary(token, left, right) ==
    LET v == ValidateOperation(token, left, right) IN
    IF v.kind = "raise" THEN v ELSE ApplyBinary(token, left, right)

Ev(stk, res) == [stack |-> stk, res |-> res]

\* One iteration of the for loop of evaluate_rpn: the value stack after it
\* and Pending, or the exception it raises, or Outside.
EvalToken(stk, token) ==
    IF IsNumber(token)
    THEN LET r == ParseNumber(token) IN
         IF r.kind = "value" THEN Ev(Append(stk, r.val), Pending) ELSE Ev(stk, r)
    ELSE IF InOperators(token)
    THEN IF StartsWithU(token)
         THEN IF Len(stk) < 1
              THEN Ev(stk, InvalidExpression("ERROR_NOT_ENOUGH_OPERANDS"))
              ELSE LET r == ApplyUnary(token, Top(stk)) IN
                   IF r.kind = "value"
                   THEN Ev(Append(Pop(stk), r.val), Pending)
                   ELSE Ev(Pop(stk), r)
         ELSE IF Len(stk) < 2
              THEN Ev(stk, InvalidExpression("ERROR_NOT_ENOUGH_OPERANDS"))
              ELSE LET right == Top(stk)
                       left == Top(Pop(stk))
                       r == EvalBinary(token, left, right)
                   IN IF r.kind = "value"
                      THEN Ev(Append(Pop(Pop(stk)), r.val), Pending)
                      ELSE Ev(Pop(Pop(stk)), r)
    ELSE Ev(stk, Pending)

\* ---------------------------------------------------------------------
\* calculate
\* ---------------------------------------------------------------------
NotBlank(c) == c # Blank

\* expression.replace(" ", "")
RemoveBlanks(text) == SelectSeq(text, NotBlank)

\* _check_parentheses(expression), depth being len(stack).
RECURSIVE CheckFrom(_, _, _)
CheckFrom(text, k, depth) ==
    IF k > Len(text) THEN depth = 0
    ELSE IF text[k] = "(" THEN CheckFrom(text, k + 1, depth + 1)
    ELSE IF text[k] = ")"
    THEN IF depth = 0 THEN FALSE ELSE CheckFrom(text, k + 1, depth - 1)
    ELSE CheckFrom(text, k + 1, depth)

CheckParentheses(text) == CheckFrom(text, 1, 0)

CalculatorErrors == {"CalculatorError", "InvalidExpressionError", "DivisionByZeroError"}

\* Mutant of Propagate: calculate has no "except Exception" clause.
PropagateUnwrapped(entry_point, res) == res

\* What the caller of the entry point sees of an exception raised inside
\* it: calculate re-raises a CalculatorError and wraps any other Exception.
Propagate(entry_point, res) ==
    IF entry_point = "calculate" /\ res.kind = "raise" /\ res.exc \notin CalculatorErrors
    THEN Raise("CalculatorError", "ERROR_UNKNOWN")
    ELSE res

\* ---------------------------------------------------------------------
\* State
\* ---------------------------------------------------------------------
VARIABLES
    entry,           \* the function the caller invoked
    pc,              \* the position of the call
    expression,      \* the text given to calculate / tokenize
    raw,             \* tokenize: tokens before _process_unary_operators
    tokens,          \* the infix tokens (result of tokenize, input of to_rpn)
    pos,             \* index of the next token of the running for loop
    output,          \* to_rpn: output
    operator_stack,  \* to_rpn: operator_stack (top at the end)
    rpn_tokens,      \* the postfix tokens (result of to_rpn, input of evaluate_rpn)
    stack,           \* evaluate_rpn: stack (top at the end)
    outcome          \* what the caller gets: Pending until the call ends

vars == <<entry, pc, expression, raw, tokens, pos, output, operator_stack,
          rpn_tokens, stack, outcome>>

\* All texts over the alphabet of at most n elements.
TextsUpTo(alphabet, n) == UNION {[1..k -> alphabet] : k \in 0..n}

Returned == [kind |-> "list", val |-> NoNumber, exc |-> "", msg |-> ""]

Fresh ==
    /\ raw = << >>
    /\ pos = 1
    /\ output = << >>
    /\ operator_stack = << >>
    /\ stack = << >>
    /\ outcome = Pending

\* ---------------------------------------------------------------------
\* Actions
\* ---------------------------------------------------------------------
\* calculate, up to the call of tokenize: blanks removed, the empty
\* expression and unbalanced parentheses rejected.
CalcStart ==
    /\ pc = "calculate"
    /\ LET stripped == RemoveBlanks(expression) IN
       /\ expression' = stripped
       /\ IF stripped = << >>
          THEN /\ outcome' = InvalidExpression("ERROR_EMPTY_EXPRESSION")
               /\ pc' = "done"
          ELSE IF ~CheckParentheses(stripped)
          THEN /\ outcome' = InvalidExpression("ERROR_UNBALANCED_PARENTHESES")
               /\ pc' = "done"
          ELSE /\ outcome' = outcome
               /\ pc' = "scan"
    /\ UNCHANGED <<entry, raw, tokens, pos, output, operator_stack, rpn_tokens, stack>>

\* tokenize, up to the call of _process_unary_operators: the text is cut
\* into tokens and the first token that is not accepted raises.
TokScan ==
    /\ pc = "scan"
    /\ LET found == StripAll(FindAll(expression, 1)) IN
       /\ raw' = found
       /\ IF \A k \in 1..Len(found) : TokenAccepted(found[k])
          THEN /\ pc' = "unary"
               /\ outcome' = outcome
          ELSE /\ pc' = "done"
               /\ outcome' = Propagate(entry, InvalidExpression("ERROR_INVALID_SYMBOL"))
    /\ UNCHANGED <<entry, expression, tokens, pos, output, operator_stack,
                   rpn_tokens, stack>>

\* tokenize returns _process_unary_operators(tokens).
TokUnary ==
    /\ pc = "unary"
    /\ tokens' = ProcessUnaryOperators(raw)
    /\ IF entry = "tokenize"
       THEN pc' = "done" /\ outcome' = Returned
       ELSE pc' = "to_rpn" /\ outcome' = outcome
    /\ UNCHANGED <<entry, expression, raw, pos, output, operator_stack,
                   rpn_tokens, stack>>

\* One iteration of the for loop of to_rpn.
RpnStep ==
    /\ pc = "to_rpn"
    /\ pos <= Len(tokens)
    /\ LET r == RpnToken(output, operator_stack, tokens[pos]) IN
       /\ output' = r.output
       /\ operator_stack' = r.operator_stack
       /\ IF r.err
          THEN /\ pc' = "done"
               /\ outcome' = Propagate(entry,
                                 InvalidExpression("ERROR_UNBALANCED_PARENTHESES"))
          ELSE /\ pc' = pc
               /\ outcome' = outcome
    /\ pos' = pos + 1
    /\ UNCHANGED <<entry, expression, raw, tokens, rpn_tokens, stack>>

\* The end of to_rpn: the operator stack is emptied onto the output, which
\* is returned.
RpnDrain ==
    /\ pc = "to_rpn"
    /\ pos > Len(tokens)
    /\ LET r == RpnDrainStack(output, operator_stack) IN
       /\ output' = r.output
       /\ operator_stack' = r.operator_stack
       /\ IF r.err
          THEN /\ pc' = "done"
               /\ outcome' = Propagate(entry,
                                 InvalidExpression("ERROR_UNBALANCED_PARENTHESES"))
               /\ UNCHANGED <<rpn_tokens, pos>>
          ELSE /\ rpn_tokens' = r.output
               /\ IF entry = "to_rpn"
                  THEN pc' = "done" /\ outcome' = Returned /\ pos' = pos
                  ELSE pc' = "evaluate" /\ outcome' = outcome /\ pos' = 1
    /\ UNCHANGED <<entry, expression, raw, tokens, stack>>

\* One iteration of the for loop of evaluate_rpn.  The step is taken only
\* when its arithmetic stays inside the modelled numbers.
EvalStep ==
    /\ pc = "evaluate"
    /\ pos <= Len(rpn_tokens)
    /\ LET r == EvalToken(stack, rpn_tokens[pos]) IN
       /\ r.res.kind # "outside"
       /\ stack' = r.stack
       /\ IF r.res.kind = "raise"
          THEN pc' = "done" /\ outcome' = Propagate(entry, r.res)
          ELSE pc' = pc /\ outcome' = outcome
    /\ pos' = pos + 1
    /\ UNCHANGED <<entry, expression, raw, tokens, output, operator_stack, rpn_tokens>>

\* The end of evaluate_rpn: exactly one value must be left.
EvalFinish ==
    /\ pc = "evaluate"
    /\ pos > Len(rpn_tokens)
    /\ pc' = "done"
    /\ outcome' = IF Len(stack) # 1
                  THEN Propagate(entry, InvalidExpression("ERROR_INVALID_EXPRESSION"))
                  ELSE Value(stack[1])
    /\ UNCHANGED <<entry, expression, raw, tokens, pos, output, operator_stack,
                   rpn_tokens, stack>>

\* ---------------------------------------------------------------------
\* Specifications: one per entry point
\* ---------------------------------------------------------------------
\* The characters of the texts given to calculate.
CalcChars == {"0", "2", "*", "-", "/", "(", ")", " "}

\* calculate(expression)
Init ==
    /\ entry = "calculate"
    /\ pc = "calculate"
    /\ expression \in TextsUpTo(CalcChars, MaxChars)
    /\ tokens = << >>
    /\ rpn_tokens = << >>
    /\ Fresh

Next ==
    \/ CalcStart
    \/ TokScan
    \/ TokUnary
    \/ RpnStep
    \/ RpnDrain
    \/ EvalStep
    \/ EvalFinish

Spec == Init /\ [][Next]_vars

\* The characters of the texts given to tokenize.
TokChars == {"2", ".", "+", "-", "*", "/", "(", ")", "u", "@", " "}

\* tokenize(expression)
InitTok ==
    /\ entry = "tokenize"
    /\ pc = "scan"
    /\ expression \in TextsUpTo(TokChars, MaxTokChars)
    /\ tokens = << >>
    /\ rpn_tokens = << >>
    /\ Fresh

NextTok ==
    \/ TokScan
    \/ TokUnary

SpecTok == InitTok /\ [][NextTok]_vars

\* The tokens of the well-formed infix expressions.
InfixNumbers == {<<"2">>, <<"3">>}

InfixBinary == {MINUS, DIV, FLOORDIV, POW}

InfixSigns == {MINUS}

\* The well-formed infix expressions of exactly k tokens, as token
\* sequences: a number, a signed expression, a parenthesised expression,
\* or two expressions joined by a binary operator.
RECURSIVE InfixOfLen(_)
InfixOfLen(k) ==
    IF k < 1 THEN {}
    ELSE IF k = 1 THEN {<<n>> : n \in InfixNumbers}
    ELSE {<<s>> \o e : s \in InfixSigns, e \in InfixOfLen(k - 1)}
         \cup {<<LPAREN>> \o e \o <<RPAREN>> : e \in InfixOfLen(k - 2)}
         \cup UNION {{l \o <<op>> \o r :
                         l \in InfixOfLen(i), op \in InfixBinary,
                         r \in InfixOfLen(k - 1 - i)} : i \in 1..(k - 2)}

\* The characters of a token sequence, one token after the other.
RECURSIVE Join(_)
Join(toks) == IF toks = << >> THEN << >> ELSE Head(toks) \o Join(Tail(toks))

InfixTexts == {Join(e) : e \in UNION {InfixOfLen(k) : k \in 1..MaxInfixTokens}}

\* evaluate_rpn(to_rpn(tokenize(expression))) on a well-formed expression
InitInfix ==
    /\ entry = "pipeline"
    /\ pc = "scan"
    /\ expression \in InfixTexts
    /\ tokens = << >>
    /\ rpn_tokens = << >>
    /\ Fresh

NextInfix ==
    \/ TokScan
    \/ TokUnary
    \/ RpnStep
    \/ RpnDrain
    \/ EvalStep
    \/ EvalFinish

SpecInfix == InitInfix /\ [][NextInfix]_vars

\* The tokens of the sequences given to to_rpn.
RpnAlphabet == {<<"2">>, MINUS, MUL, POW, UMINUS, LPAREN, RPAREN}

\* to_rpn(tokens)
InitRpn ==
    /\ entry = "to_rpn"
    /\ pc = "to_rpn"
    /\ expression = << >>
    /\ tokens \in TextsUpTo(RpnAlphabet, MaxRpnTokens)
    /\ rpn_tokens = << >>
    /\ Fresh

NextRpn ==
    \/ RpnStep
    \/ RpnDrain

SpecRpn == InitRpn /\ [][NextRpn]_vars

\* The tokens of the sequences given to to_rpn, with two distinct numbers.
RpnNumbersAlphabet == {<<"2">>, <<"3">>, MINUS, POW, LPAREN, RPAREN}

\* to_rpn(tokens) over RpnNumbersAlphabet
InitRpnNumbers ==
    /\ entry = "to_rpn"
    /\ pc = "to_rpn"
    /\ expression = << >>
    /\ tokens \in TextsUpTo(RpnNumbersAlphabet, MaxRpnTokens)
    /\ rpn_tokens = << >>
    /\ Fresh

NextRpnNumbers ==
    \/ RpnStep
    \/ RpnDrain

SpecRpnNumbers == InitRpnNumbers /\ [][NextRpnNumbers]_vars

\* The tokens of the sequences given to evaluate_rpn.
EvalAlphabet == {<<"0">>, <<"6">>, <<"1", "0", ".", "5">>, DIV, FLOORDIV, MOD, UMINUS}

\* evaluate_rpn(rpn_tokens)
InitEval ==
    /\ entry = "evaluate_rpn"
    /\ pc = "evaluate"
    /\ expression = << >>
    /\ tokens = << >>
    /\ rpn_tokens \in TextsUpTo(EvalAlphabet, MaxEvalTokens)
    /\ Fresh

NextEval ==
    \/ EvalStep
    \/ EvalFinish

SpecEval == InitEval /\ [][NextEval]_vars

\* to_rpn(tokens) from the token at index k on, as a function: Conv with
\* the postfix tokens, or err when it raises.
RECURSIVE ToRpnFrom(_, _, _, _)
ToRpnFrom(toks, k, out, stk) ==
    IF k > Len(toks) THEN RpnDrainStack(out, stk)
    ELSE LET r == RpnToken(out, stk, toks[k]) IN
         IF r.err THEN r ELSE ToRpnFrom(toks, k + 1, r.output, r.operator_stack)

\* evaluate_rpn(rpn) from the token at index k on never computes a number
\* outside the modelled ones.
RECURSIVE ArithmeticModelled(_, _, _)
ArithmeticModelled(rpn, k, stk) ==
    IF k > Len(rpn) THEN TRUE
    ELSE LET r == EvalToken(stk, rpn[k]) IN
         IF r.res.kind = "outside" THEN FALSE
         ELSE IF r.res.kind = "raise" THEN TRUE
         ELSE ArithmeticModelled(rpn, k + 1, r.stack)

\* calculate(text) computes only modelled numbers: it raises before
\* evaluate_rpn, or every number evaluate_rpn computes is a modelled one.
InModelledNumbers(text) ==
    LET stripped == RemoveBlanks(text)
        found == StripAll(FindAll(stripped, 1))
    IN IF stripped = << >> \/ ~CheckParentheses(stripped) THEN TRUE
       ELSE IF \E k \in 1..Len(found) : ~TokenAccepted(found[k]) THEN TRUE
       ELSE LET r == ToRpnFrom(ProcessUnaryOperators(found), 1, << >>, << >>)
            IN r.err \/ ArithmeticModelled(r.output, 1, << >>)

\* The characters of the texts given to calculate, with one character that
\* no token contains.
CalcInputChars == {"0", "2", "*", "-", "/", "(", ")", " ", "@"}

\* calculate(expression) on every text whose numbers are modelled ones
InitCalc ==
    /\ entry = "calculate"
    /\ pc = "calculate"
    /\ expression \in {text \in TextsUpTo(CalcInputChars, MaxChars) :
                          InModelledNumbers(text)}
    /\ tokens = << >>
    /\ rpn_tokens = << >>
    /\ Fresh

NextCalc ==
    \/ CalcStart
    \/ TokScan
    \/ TokUnary
    \/ RpnStep
    \/ RpnDrain
    \/ EvalStep
    \/ EvalFinish

SpecCalc == InitCalc /\ [][NextCalc]_vars

\* ---------------------------------------------------------------------
\* Reference: recursive-descent parsing and evaluation of infix tokens
\* ---------------------------------------------------------------------
\* The reference reads the tokens as tokenize's lexical pattern delivers them,
\* before any retagging: a "+" or "-" met where an operand is expected is
\* the unary operator.  Trees are <<"num", token>>, <<"un", operator, tree>>
\* and <<"bin", operator, left, right>>.
BinarySymbols == {PLUS, MINUS, MUL, DIV, FLOORDIV, MOD, POW}

Parsed(tree, next) == [ok |-> TRUE, tree |-> tree, next |-> next]

NoParse == [ok |-> FALSE, tree |-> << >>, next |-> 0]

RECURSIVE RefOperand(_, _)
RECURSIVE RefClimb(_, _, _)
RECURSIVE RefLoop(_, _, _)

\* An operand at position p: a number, a parenthesised expression, or a
\* sign applied to what binds at least as tightly as the sign.
RefOperand(toks, p) ==
    IF p > Len(toks) THEN NoParse
    ELSE IF toks[p] \in {PLUS, MINUS}
    THEN LET op == <<"u">> \o toks[p]
             sub == RefClimb(toks, p + 1, OPERATORS[op].precedence)
         IN IF sub.ok THEN Parsed(<<"un", op, sub.tree>>, sub.next) ELSE NoParse
    ELSE IF toks[p] = LPAREN
    THEN LET sub == RefClimb(toks, p + 1, 0)
         IN IF sub.ok /\ sub.next <= Len(toks) /\ toks[sub.next] = RPAREN
            THEN Parsed(sub.tree, sub.next + 1)
            ELSE NoParse
    ELSE IF IsDecimalLiteral(toks[p]) THEN Parsed(<<"num", toks[p]>>, p + 1)
    ELSE NoParse

\* Binary operators of precedence >= min applied to the operand lhs.
RefLoop(toks, lhs, min) ==
    IF /\ lhs.next <= Len(toks)
       /\ toks[lhs.next] \in BinarySymbols
       /\ OPERATORS[toks[lhs.next]].precedence >= min
    THEN LET op == toks[lhs.next]
             rhs == RefClimb(toks, lhs.next + 1,
                             IF OPERATORS[op].associativity = "left"
                             THEN OPERATORS[op].precedence + 1
                             ELSE OPERATORS[op].precedence)
         IN IF rhs.ok
            THEN RefLoop(toks, Parsed(<<"bin", op, lhs.tree, rhs.tree>>, rhs.next), min)
            ELSE NoParse
    ELSE lhs

RefClimb(toks, p, min) ==
    LET lhs == RefOperand(toks, p) IN
    IF lhs.ok THEN RefLoop(toks, lhs, min) ELSE NoParse

RefParse(toks) == RefClimb(toks, 1, 0)

\* The tokens are a well-formed infix expression.
WellFormed(toks) ==
    LET r == RefParse(toks) IN r.ok /\ r.next = Len(toks) + 1

\* The value (or the exception) of a tree, operands left to right.
RECURSIVE RefEvalTree(_)
RefEvalTree(tree) ==
    IF tree[1] = "num" THEN ParseNumber(tree[2])
    ELSE IF tree[1] = "un"
    THEN LET x == RefEvalTree(tree[3]) IN
         IF x.kind # "value" THEN x ELSE ApplyUnary(tree[2], x.val)
    ELSE LET l == RefEvalTree(tree[3]) IN
         IF l.kind # "value" THEN l
         ELSE LET r == RefEvalTree(tree[4]) IN
              IF r.kind # "value" THEN r
              ELSE EvalBinary(tree[2], l.val, r.val)

RefEvaluate(toks) == RefEvalTree(RefParse(toks).tree)

\* ---------------------------------------------------------------------
\* Claims
\* ---------------------------------------------------------------------
IsDone == pc = "done"

\* C1: for every well-formed infix expression, the pipeline
\* evaluate_rpn(to_rpn(tokenize(e))) ends with the value (or the exception)
\* of the reference recursive-descent evaluation of e under the table's
\* precedences and associativities.
C1_RoundTrip ==
    (entry = "pipeline" /\ IsDone /\ WellFormed(FindAll(expression, 1)))
        => outcome = RefEvaluate(FindAll(expression, 1))

\* C1 witness: "2**3**2" has been evaluated to 512 (right-associative).
C1_Witness ==
    /\ entry = "pipeline"
    /\ IsDone
    /\ expression = <<"2", "*", "*", "3", "*", "*", "2">>
    /\ WellFormed(raw)
    /\ outcome = Value(Num("int", 512, 1))

\* C4: a leading unary minus is grouped around the whole power: the tokens
\* u- a ** b become a b ** u-, and "-2**2" evaluates to -4.
C4_UnaryMinusAroundPower ==
    /\ (/\ pc \in {"evaluate", "done"}
        /\ Len(tokens) = 4
        /\ tokens[1] = UMINUS /\ IsNumber(tokens[2])
        /\ tokens[3] = POW /\ IsNumber(tokens[4]))
           => rpn_tokens = <<tokens[2], tokens[4], POW, UMINUS>>
    /\ (IsDone /\ expression = <<"-", "2", "*", "*", "2">>)
           => outcome = Value(Num("int", -4, 1))

\* An upper bound on the number of steps the call has left: two for each
\* character or token still to be read by to_rpn and by evaluate_rpn, one
\* for each stage still to be entered.
StepsLeft ==
    CASE pc = "calculate" -> 2 * Len(expression) + 5
      [] pc = "scan" -> 2 * Len(expression) + 4
      [] pc = "unary" -> 2 * Len(raw) + 3
      [] pc = "to_rpn" -> (Len(tokens) + 1 - pos) + Len(tokens) + 2
      [] pc = "evaluate" -> (Len(rpn_tokens) + 1 - pos) + 1
      [] OTHER -> 0

\* The call can take a step.  TokScan is enabled whenever pc = "scan": both
\* of its branches assign every variable.
CanStep ==
    \/ pc = "scan"
    \/ ENABLED (CalcStart \/ TokUnary \/ RpnStep \/ RpnDrain \/ EvalStep \/ EvalFinish)

C3_MalformedRejected ==
    (entry = "calculate" /\ IsDone /\ ~WellFormed(FindAll(expression, 1)))
        => outcome.kind # "value"

\* The operator symbols of the input text.
OperatorSymbols == {PLUS, MINUS, MUL, DIV, FLOORDIV, MOD, POW}

\* The retagging rule of C5 for the token at index i.
RetaggedC5(toks, i) ==
    IF /\ toks[i] \in {PLUS, MINUS}
       /\ (i = 1 \/ toks[i - 1] = LPAREN \/ toks[i - 1] \in OperatorSymbols)
    THEN <<"u">> \o toks[i]
    ELSE toks[i]

\* C5: tokenize retags a "+" or "-" as unary iff it is the first token or
\* follows "(" or an operator symbol; every other token is unchanged and
\* in place.
C5_UnaryRule ==
    (entry = "tokenize" /\ IsDone /\ outcome = Returned) =>
        /\ Len(tokens) = Len(raw)
        /\ \A i \in 1..Len(raw) : tokens[i] = RetaggedC5(raw, i)

\* C5 witness: "2--2" has been tokenized: the first "-" follows a number
\* and stays binary, the second follows an operator and is unary.
C5_Witness ==
    /\ entry = "tokenize"
    /\ IsDone
    /\ raw = <<<<"2">>, MINUS, MINUS, <<"2">>>>
    /\ tokens = <<<<"2">>, MINUS, UMINUS, <<"2">>>>

\* A recognized token shape: a decimal number, an operator or a parenthesis.
RecognizedShape(token) ==
    \/ (IsDecimalLiteral(token) /\ token[1] \in Digits /\ token[Len(token)] \in Digits)
    \/ token \in OperatorSymbols
    \/ token \in {LPAREN, RPAREN}

\* C6: tokenize fails with InvalidExpression whenever a scanned segment is
\* not a recognized token shape, and returns tokens only when all are.
C6_UnrecognizedRejected ==
    (entry = "tokenize" /\ IsDone) =>
        IF \A k \in 1..Len(raw) : RecognizedShape(raw[k])
        THEN outcome = Returned
        ELSE outcome = InvalidExpression("ERROR_INVALID_SYMBOL")

\* C7: a binary "/", "//" or "%" whose right operand is zero fails with
\* DivisionByZero whatever the tags of the operands, and pushes nothing.
C7_ZeroCheckFirst ==
    [][(/\ pc = "evaluate"
        /\ pos <= Len(rpn_tokens)
        /\ rpn_tokens[pos] \in {DIV, FLOORDIV, MOD}
        /\ Len(stack) >= 2
        /\ stack[Len(stack)].n = 0) =>
          /\ pc' = "done"
          /\ outcome' = Raise("DivisionByZeroError", "ERROR_DIVISION_BY_ZERO")
          /\ stack' = SubSeq(stack, 1, Len(stack) - 2)
      ]_vars

\* C7 witness: 10.5 // 0 has failed with DivisionByZero.
C7_Witness ==
    /\ entry = "evaluate_rpn"
    /\ IsDone
    /\ rpn_tokens = <<<<"1", "0", ".", "5">>, <<"0">>, FLOORDIV>>
    /\ outcome = Raise("DivisionByZeroError", "ERROR_DIVISION_BY_ZERO")
    /\ stack = << >>

\* C8: a number token is Float-tagged iff its literal contains "."; "/"
\* yields a Float; "//" and "%" with a nonzero right operand fail with
\* InvalidExpression iff an operand is Float-tagged and otherwise push an
\* Integer.
C8_IntegerOnly ==
    [][(pc = "evaluate" /\ pos <= Len(rpn_tokens)) =>
          LET token == rpn_tokens[pos]
              right == stack[Len(stack)]
              left == stack[Len(stack) - 1]
              pushed == stack'[Len(stack')]
          IN
          /\ IsNumber(token) =>
                 /\ stack' = Append(stack, pushed)
                 /\ pushed.tag = (IF HasDot(token) THEN "float" ELSE "int")
          /\ (token = DIV /\ Len(stack) >= 2 /\ right.n # 0) =>
                 /\ outcome' = Pending
                 /\ Len(stack') = Len(stack) - 1
                 /\ pushed.tag = "float"
          /\ (token \in {FLOORDIV, MOD} /\ Len(stack) >= 2 /\ right.n # 0) =>
                 IF left.tag = "float" \/ right.tag = "float"
                 THEN /\ pc' = "done"
                      /\ outcome' = Raise("InvalidExpressionError",
                                          "ERROR_INTEGER_OPERATION")
                      /\ stack' = SubSeq(stack, 1, Len(stack) - 2)
                 ELSE /\ outcome' = Pending
                      /\ Len(stack') = Len(stack) - 1
                      /\ pushed.tag = "int"
      ]_vars

\* C8 witness: 6 / 6 is the integer-valued float 1.0, and 1.0 // 6 has
\* failed with InvalidExpression.
C8_Witness ==
    /\ entry = "evaluate_rpn"
    /\ IsDone
    /\ rpn_tokens = <<<<"6">>, <<"6">>, DIV, <<"6">>, FLOORDIV>>
    /\ outcome = Raise("InvalidExpressionError", "ERROR_INTEGER_OPERATION")

\* C9: _check_parentheses over the characters of the tokens is False
\* exactly when to_rpn over the tokens fails with the
\* unbalanced-parentheses InvalidExpression.
C9_ParenChecksAgree ==
    (entry = "to_rpn" /\ IsDone) =>
        (~CheckParentheses(Join(tokens))
            <=> outcome = Raise("InvalidExpressionError",
                                "ERROR_UNBALANCED_PARENTHESES"))

\* C9 witness: to_rpn has failed on a "(" that is closed twice, after
\* converting what was inside it.
C9_Witness ==
    /\ entry = "to_rpn"
    /\ IsDone
    /\ tokens = <<LPAREN, <<"2">>, RPAREN, RPAREN>>
    /\ ~CheckParentheses(Join(tokens))
    /\ outcome.kind = "raise"

\* Index of the nearest "(" of the stack (0 when there is none).
NearestParen(stk) ==
    IF \E j \in 1..Len(stk) : stk[j] = LPAREN
    THEN CHOOSE j \in 1..Len(stk) :
             stk[j] = LPAREN /\ \A m \in (j + 1)..Len(stk) : stk[m] # LPAREN
    ELSE 0

RECURSIVE Reverse(_)
Reverse(q) == IF q = << >> THEN << >> ELSE Append(Reverse(Tail(q)), Head(q))

\* C10: on an operator token, to_rpn pops to the output exactly the
\* operators above the nearest "(" whose precedence is greater than the
\* incoming one, or equal to it when the incoming operator is
\* left-associative, and then pushes the incoming operator; a ** b ** c
\* becomes a b c ** ** and a - b - c becomes a b - c -.
C10_PopRule ==
    /\ [][(pc = "to_rpn" /\ pos <= Len(tokens) /\ InOperators(tokens[pos])) =>
             LET incoming == OPERATORS[tokens[pos]]
                 Goes(e) ==
                     \/ OPERATORS[e].precedence > incoming.precedence
                     \/ /\ OPERATORS[e].precedence = incoming.precedence
                        /\ incoming.associativity = "left"
                 Stays(e) == ~Goes(e)
                 j == NearestParen(operator_stack)
                 above == SubSeq(operator_stack, j + 1, Len(operator_stack))
             IN /\ output' = output \o Reverse(SelectSeq(above, Goes))
                /\ operator_stack' =
                       SubSeq(operator_stack, 1, j) \o SelectSeq(above, Stays)
                           \o <<tokens[pos]>>
         ]_vars
    /\ [](IsDone /\ entry = "to_rpn" =>
             /\ tokens = <<<<"2">>, POW, <<"2">>, POW, <<"2">>>> =>
                    rpn_tokens = <<<<"2">>, <<"2">>, <<"2">>, POW, POW>>
             /\ tokens = <<<<"2">>, MINUS, <<"2">>, MINUS, <<"2">>>> =>
                    rpn_tokens = <<<<"2">>, <<"2">>, MINUS, <<"2">>, MINUS>>)

\* C10 witness: with - and ** on the stack, an incoming * has popped **
\* and kept -.
C10_Witness ==
    /\ entry = "to_rpn"
    /\ pc = "to_rpn"
    /\ pos = 6
    /\ SubSeq(tokens, 1, 5) = <<<<"2">>, MINUS, <<"2">>, POW, MUL>>
    /\ output = <<<<"2">>, <<"2">>, POW>>
    /\ operator_stack = <<MINUS, MUL>>

\* How many times the token occurs in the sequence.
Occurrences(q, token) == Cardinality({k \in 1..Len(q) : q[k] = token})

\* The token is a number or an operator (not a parenthesis).
IsNumberOrOperator(token) == IsNumber(token) \/ InOperators(token)

\* The tokens of the input that to_rpn has not read yet.
Unread == SubSeq(tokens, pos, Len(tokens))

\* C11: to_rpn conserves tokens: at every step the output, the operator
\* stack and the unread input together hold each number and operator token
\* of the input exactly as often as the input does, no number is on the
\* operator stack, and on success the output has every number and operator
\* token of the input exactly as often as the input, has no parenthesis,
\* and lists the numbers in their original order.
C11_TokensConserved ==
    entry = "to_rpn" =>
        /\ \A k \in 1..Len(tokens) :
               IsNumberOrOperator(tokens[k]) =>
                   Occurrences(output, tokens[k])
                       + Occurrences(operator_stack, tokens[k])
                       + Occurrences(Unread, tokens[k])
                     = Occurrences(tokens, tokens[k])
        /\ \A k \in 1..Len(output) : output[k] \in {tokens[m] : m \in 1..Len(tokens)}
        /\ \A k \in 1..Len(operator_stack) :
               /\ ~IsNumber(operator_stack[k])
               /\ operator_stack[k] \in {tokens[m] : m \in 1..Len(tokens)}
        /\ (IsDone /\ outcome = Returned) =>
               /\ Len(rpn_tokens) =
                      Cardinality({k \in 1..Len(tokens) : IsNumberOrOperator(tokens[k])})
               /\ \A k \in 1..Len(tokens) :
                      IsNumberOrOperator(tokens[k]) =>
                          Occurrences(rpn_tokens, tokens[k]) = Occurrences(tokens, tokens[k])
               /\ \A k \in 1..Len(rpn_tokens) : rpn_tokens[k] \notin {LPAREN, RPAREN}
               /\ SelectSeq(rpn_tokens, IsNumber) = SelectSeq(tokens, IsNumber)

\* C11 witness: "( 2 - 3 )" has been converted to 2 3 -: the operator
\* went through the stack and the parentheses are gone.
C11_Witness ==
    /\ entry = "to_rpn"
    /\ IsDone
    /\ outcome = Returned
    /\ tokens = <<LPAREN, <<"2">>, MINUS, <<"3">>, RPAREN>>
    /\ rpn_tokens = <<<<"2">>, <<"3">>, MINUS>>

====
